---- MODULE Spec2Model ----
(***************************************************************************)
(* A model of the video checker's bitrate logic (bitrate_logic.py) and of  *)
(* the scanner's path and exclusion lists (video_scanner.py, utils.py).    *)
(*                                                                         *)
(* Python strings are tuples of one-character strings, so that lower(),    *)
(* strip(), split(','), int() and float() are computed, not assumed.       *)
(* Python floats are exact rationals [n, d] wherever the value the code    *)
(* computes is rational; a call whose power law is irrational (a           *)
(* fractional exponent on a positive base other than 1) is outside the     *)
(* model.  The one float product whose rounding decides a result,          *)
(* target_bitrate * 1.15, is computed as IEEE-754 binary64 computes it.    *)
(*                                                                         *)
(* The helpers are functions, whose arguments TLC evaluates once.          *)
(***************************************************************************)
EXTENDS Integers, Sequences, FiniteSets, TLC

VARIABLES environ, dotenv, files, call, calls, scan

vars == <<environ, dotenv, files, call, calls, scan>>

\* The element of a one-element set: Only({e(v) : v \in {x}}) is
\* LET v == x IN e(v) with x evaluated once.
Only(S) == CHOOSE v \in S : TRUE

(***************************************************************************)
(* Strings                                                                 *)
(***************************************************************************)
Str == Seq(STRING)

Whitespace == {" ", "\n"}

Upper == <<"A", "B", "C", "D", "E", "F", "G", "H", "I", "J", "K", "L", "M", "N", "O", "P", "Q", "R", "S", "T", "U", "V", "W", "X", "Y", "Z">>

LowerLetters == <<"a", "b", "c", "d", "e", "f", "g", "h", "i", "j", "k", "l", "m", "n", "o", "p", "q", "r", "s", "t", "u", "v", "w", "x", "y", "z">>

Digits == <<"0", "1", "2", "3", "4", "5", "6", "7", "8", "9">>

\* the first position of character c in s, or 0
IndexIn[c \in STRING, s \in Str] ==
    IF \E i \in 1..Len(s) : s[i] = c
    THEN CHOOSE i \in 1..Len(s) : s[i] = c /\ \A j \in 1..(i - 1) : s[j] # c
    ELSE 0

\* str.lower()
Lower[s \in Str] ==
    [i \in 1..Len(s) |->
       IF \E k \in 1..Len(Upper) : Upper[k] = s[i]
       THEN LowerLetters[CHOOSE k \in 1..Len(Upper) : Upper[k] = s[i]]
       ELSE s[i]]

\* str.strip()
Strip[s \in Str] ==
    LET keep == {i \in 1..Len(s) : s[i] \notin Whitespace}
    IN  IF keep = {} THEN <<>>
        ELSE SubSeq(s, CHOOSE i \in keep : \A j \in keep : i <= j,
                       CHOOSE i \in keep : \A j \in keep : j <= i)

\* str.split(','): the pieces between the commas, empty pieces included;
\* the empty string splits into one empty piece.
SplitFrom[s \in Str, i \in Nat, piece \in Str] ==
    IF i > Len(s) THEN <<piece>>
    ELSE IF s[i] = "," THEN <<piece>> \o SplitFrom[s, i + 1, <<>>]
    ELSE SplitFrom[s, i + 1, Append(piece, s[i])]

Split[s \in Str] == SplitFrom[s, 1, <<>>]

\* str.startswith('#')
StartsWithHash[s \in Str] == Len(s) > 0 /\ s[1] = "#"

(***************************************************************************)
(* Exact rationals, kept in lowest terms with a positive denominator       *)
(***************************************************************************)
Rats == [n : Int, d : Int]

Abs(x) == IF x < 0 THEN -x ELSE x

Gcd[a \in Nat, b \in Nat] == IF b = 0 THEN a ELSE Gcd[b, a % b]

Rat[n \in Int, d \in Int] ==
    LET g == Gcd[Abs(n), Abs(d)]
        s == IF d < 0 THEN -1 ELSE 1
    IN  [n |-> s * (n \div g), d |-> s * (d \div g)]

RatInt(k) == [n |-> k, d |-> 1]

\* the product, reduced crosswise before multiplying
RatMul[x \in Rats, y \in Rats] ==
    [n |-> Rat[x.n, y.d].n * Rat[y.n, x.d].n, d |-> Rat[x.n, y.d].d * Rat[y.n, x.d].d]

\* x / y for y # 0
RatDiv[x \in Rats, y \in Rats] == RatMul[x, Rat[y.d, y.n]]

RatIntPow[x \in Rats, k \in Nat] == IF k = 0 THEN RatInt(1) ELSE RatMul[x, RatIntPow[x, k - 1]]

Pow10[k \in Nat] == IF k = 0 THEN 1 ELSE 10 * Pow10[k - 1]

(***************************************************************************)
(* int(str) and float(str) as load_video_config uses them                  *)
(***************************************************************************)
AllDigits[s \in Str] == \A i \in 1..Len(s) : \E d \in 1..10 : Digits[d] = s[i]

DigitsValue[s \in Str] ==
    IF Len(s) = 0 THEN 0
    ELSE 10 * DigitsValue[SubSeq(s, 1, Len(s) - 1)]
         + (CHOOSE d \in 0..9 : Digits[d + 1] = s[Len(s)])

Unsigned[s \in Str] == IF Len(s) > 0 /\ s[1] \in {"+", "-"} THEN Tail(s) ELSE s

SignOf[s \in Str] == IF Len(s) > 0 /\ s[1] = "-" THEN -1 ELSE 1

SignedTexts == [sign : {-1, 1}, digits : Str]

\* the text of a number after strip(), with its sign apart
SignedDigits[s \in Str] ==
    Only({[sign |-> SignOf[t], digits |-> Unsigned[t]] : t \in {Strip[s]}})

\* int(s): surrounding whitespace, an optional sign, one or more digits;
\* a text of any other form among the settings raises ValueError
\* (ok = FALSE).  Digit groups with underscores are not among them.
IntOfDigits[t \in SignedTexts] ==
    IF Len(t.digits) > 0 /\ AllDigits[t.digits]
    THEN [ok |-> TRUE, v |-> t.sign * DigitsValue[t.digits]]
    ELSE [ok |-> FALSE, v |-> 0]

ParseInt[s \in Str] == IntOfDigits[SignedDigits[s]]

\* float(s): surrounding whitespace, an optional sign, digits with at most
\* one point and at least one digit; a text of any other form among the
\* settings raises ValueError.  Exponents, inf and nan are not among them.
\* The value is kept as an exact fraction.
FloatOfDigits[t \in SignedTexts] ==
    LET u == t.digits
        p == IndexIn[".", u]
        whole == IF p = 0 THEN u ELSE SubSeq(u, 1, p - 1)
        frac == IF p = 0 THEN <<>> ELSE SubSeq(u, p + 1, Len(u))
    IN  IF Len(whole) + Len(frac) > 0 /\ AllDigits[whole] /\ AllDigits[frac]
        THEN [ok |-> TRUE,
              v |-> Rat[t.sign * (DigitsValue[whole] * Pow10[Len(frac)] + DigitsValue[frac]),
                        Pow10[Len(frac)]]]
        ELSE [ok |-> FALSE, v |-> RatInt(0)]

ParseFloat[s \in Str] == FloatOfDigits[SignedDigits[s]]

(***************************************************************************)
(* The process environment and the .env file                               *)
(***************************************************************************)
\* os.getenv(key, default)
Getenv(env, key, default) == IF key \in DOMAIN env THEN env[key] ELSE default

\* load_dotenv(): every variable of the .env file that the process
\* environment does not hold yet is added to it; none is overridden.
LoadDotenv(env, file) == env @@ file

(***************************************************************************)
(* bitrate_logic.py                                                        *)
(***************************************************************************)
\* load_video_config: the seven values, or ok = FALSE where float() or
\* int() raises ValueError.
LoadVideoConfig(env) ==
    Only({[ok |-> ps.ok /\ fs.ok /\ rw.ok /\ rh.ok /\ rf.ok /\ rb.ok,
           pixel_scaling |-> ps.v,
           framerate_scaling |-> fs.v,
           reference_width |-> rw.v,
           reference_height |-> rh.v,
           reference_framerate |-> rf.v,
           reference_bitrate |-> rb.v,
           reference_encoder |-> Getenv(env, "REFERENCE_ENCODER", <<"A", "V", "C">>)] :
          ps \in {ParseFloat[Getenv(env, "PIXEL_SCALING", <<"9", "0", ".", "0">>)]},
          fs \in {ParseFloat[Getenv(env, "FRAMERATE_SCALING", <<"7", "5", ".", "0">>)]},
          rw \in {ParseInt[Getenv(env, "REFERENCE_WIDTH", <<"1", "9", "2", "0">>)]},
          rh \in {ParseInt[Getenv(env, "REFERENCE_HEIGHT", <<"1", "0", "8", "0">>)]},
          rf \in {ParseInt[Getenv(env, "REFERENCE_FRAMERATE", <<"2", "4">>)]},
          rb \in {ParseInt[Getenv(env, "REFERENCE_BITRATE", <<"6", "0", "0", "0", "0", "0", "0">>)]}})

\* ENCODER_MAP, the efficiencies as rationals
ENCODER_MAP ==
    << <<<<"p", "r", "o", "r", "e", "s">>, [n |-> 3, d |-> 1]>>, <<<<"d", "n", "x", "h", "d">>, [n |-> 3, d |-> 1]>>,
       <<<<"d", "n", "x", "h", "r">>, [n |-> 3, d |-> 1]>>,
       <<<<"m", "p", "e", "g", "-", "1">>, [n |-> 2, d |-> 1]>>, <<<<"m", "p", "e", "g", "-", "2">>, [n |-> 9, d |-> 5]>>,
       <<<<"v", "c", "-", "1">>, [n |-> 3, d |-> 2]>>, <<<<"w", "m", "v">>, [n |-> 8, d |-> 5]>>,
       <<<<"r", "e", "a", "l", "v", "i", "d", "e", "o">>, [n |-> 2, d |-> 1]>>,
       <<<<"m", "p", "e", "g", "-", "4", " ", "v", "i", "s", "u", "a", "l">>, [n |-> 13, d |-> 10]>>, <<<<"i", "s", "o", "/", "a", "s", "p">>, [n |-> 13, d |-> 10]>>,
       <<<<"x", "v", "i", "d">>, [n |-> 13, d |-> 10]>>, <<<<"d", "i", "v", "x">>, [n |-> 13, d |-> 10]>>,
       <<<<"d", "x", "5", "0">>, [n |-> 13, d |-> 10]>>, <<<<"m", "p", "4", "v">>, [n |-> 13, d |-> 10]>>,
       <<<<"a", "v", "c">>, [n |-> 1, d |-> 1]>>, <<<<"h", ".", "2", "6", "4">>, [n |-> 1, d |-> 1]>>,
       <<<<"i", "s", "o", "/", "a", "v", "c">>, [n |-> 1, d |-> 1]>>,
       <<<<"h", "e", "v", "c">>, [n |-> 3, d |-> 4]>>, <<<<"h", ".", "2", "6", "5">>, [n |-> 3, d |-> 4]>>,
       <<<<"i", "s", "o", "/", "h", "e", "v", "c">>, [n |-> 3, d |-> 4]>>,
       <<<<"v", "p", "8">>, [n |-> 6, d |-> 5]>>, <<<<"v", "p", "9">>, [n |-> 7, d |-> 10]>>,
       <<<<"a", "v", "1">>, [n |-> 3, d |-> 5]>> >>

\* dict.get(key, default) on a sequence of <<key, value>> pairs
DictGet(map, key, default) ==
    Only({IF \E i \in 1..Len(m) : m[i][1] = k
          THEN m[CHOOSE i \in 1..Len(m) : m[i][1] = k][2]
          ELSE default : m \in {map}, k \in {key}})

\* C5 mutant: the efficiency coefficient inverted, a more efficient codec
\* getting the larger factor
InvertedEncoderEfficiency(encoder) ==
    Only({IF e.n = 0 THEN e ELSE [n |-> e.d, d |-> e.n] :
          e \in {DictGet(ENCODER_MAP, Lower[encoder], RatInt(0))}})

\* obtain_encoder_efficiency: 0 for a name the table does not hold
ObtainEncoderEfficiency(encoder) == DictGet(ENCODER_MAP, Lower[encoder], RatInt(0))

\* x ** y on floats.  tag "real": the value v; "zerodiv": Python raises
\* ZeroDivisionError (0.0 to a negative power); "complex": a negative base
\* to a fractional power, which Python 3 returns as a complex number;
\* "irrational": a value this model does not represent.
PyPow[x \in Rats, y \in Rats] ==
    IF y.n = 0 THEN [tag |-> "real", v |-> RatInt(1)]
    ELSE IF x.n = 0
         THEN IF y.n > 0 THEN [tag |-> "real", v |-> RatInt(0)]
              ELSE [tag |-> "zerodiv", v |-> RatInt(0)]
    ELSE IF x = RatInt(1) THEN [tag |-> "real", v |-> RatInt(1)]
    ELSE IF y.d = 1
         THEN IF y.n > 0 THEN [tag |-> "real", v |-> RatIntPow[x, y.n]]
              ELSE [tag |-> "real", v |-> RatIntPow[RatDiv[RatInt(1), x], -y.n]]
    ELSE IF x.n < 0 THEN [tag |-> "complex", v |-> RatInt(0)]
    ELSE [tag |-> "irrational", v |-> RatInt(0)]

\* int(x) of a float: truncation toward zero
IntTrunc[x \in Rats] == IF x.n >= 0 THEN x.n \div x.d ELSE -((-x.n) \div x.d)

RoundingStep == 100000

\* C9 mutant: the height taken for the width
HeightTimesHeight(width, height) == height * height

\* pixel_count = width * height
PixelCount(width, height) == width * height

\* C3 mutant: round() in place of int(), the nearest step instead of the
\* step below
RoundToNearestStep(raw) ==
    IntTrunc[RatDiv[RatInt(IntTrunc[raw] + RoundingStep \div 2), RatInt(RoundingStep)]]
    * RoundingStep

\* int(suggested_bitrate / 100000) * 100000
RoundSuggestedBitrate(raw) == IntTrunc[RatDiv[raw, RatInt(RoundingStep)]] * RoundingStep

\* How a call ends.  kind "return" with ret (and raw, the unrounded
\* suggested_bitrate), or kind the exception raised and stage "load" when
\* load_video_config raised it, "calc" when the calculation did.
Raised(kind, stage) == [kind |-> kind, stage |-> stage, ret |-> 0, raw |-> RatInt(0)]

Returned(raw) ==
    Only({[kind |-> "return", stage |-> "done", ret |-> RoundSuggestedBitrate(r), raw |-> r] :
          r \in {raw}})

\* the encoder multiplier, the product and its rounding
WithMultipliers(cfg, pixel_multiplier, framerate_multiplier, encoder) ==
    Only({IF reference_encoder_efficiency.n = 0 THEN Raised("ZeroDivisionError", "calc")
          ELSE IF "complex" \in {pixel_multiplier.tag, framerate_multiplier.tag}
               THEN Raised("TypeError", "calc")
          ELSE IF "irrational" \in {pixel_multiplier.tag, framerate_multiplier.tag}
               THEN Raised("irrational", "calc")
          ELSE Returned(RatMul[RatMul[RatMul[RatInt(cfg.reference_bitrate),
                                             pixel_multiplier.v],
                                      framerate_multiplier.v],
                               RatDiv[encoder_efficiency, reference_encoder_efficiency]]) :
          encoder_efficiency \in {ObtainEncoderEfficiency(encoder)},
          reference_encoder_efficiency \in {ObtainEncoderEfficiency(cfg.reference_encoder)}})

\* the framerate multiplier
WithPixelMultiplier(cfg, pixel_multiplier, framerate, encoder) ==
    IF pixel_multiplier.tag = "zerodiv" THEN Raised("ZeroDivisionError", "calc")
    ELSE IF cfg.reference_framerate = 0 THEN Raised("ZeroDivisionError", "calc")
    ELSE Only({IF framerate_multiplier.tag = "zerodiv"
               THEN Raised("ZeroDivisionError", "calc")
               ELSE WithMultipliers(cfg, pixel_multiplier, framerate_multiplier, encoder) :
               framerate_multiplier \in
                   {PyPow[Rat[framerate, cfg.reference_framerate],
                          RatDiv[cfg.framerate_scaling, RatInt(100)]]}})

\* the pixel counts and the pixel multiplier
WithConfig(cfg, width, height, framerate, encoder) ==
    IF ~cfg.ok THEN Raised("ValueError", "load")
    ELSE IF cfg.reference_width * cfg.reference_height = 0
         THEN Raised("ZeroDivisionError", "calc")
    ELSE Only({WithPixelMultiplier(cfg, pixel_multiplier, framerate, encoder) :
               pixel_multiplier \in
                   {PyPow[Rat[PixelCount(width, height),
                              cfg.reference_width * cfg.reference_height],
                          RatDiv[cfg.pixel_scaling, RatInt(100)]]}})

\* calculate_suggested_video_bitrate on the environment load_dotenv left
CalculateSuggestedVideoBitrate(env, width, height, framerate, encoder) ==
    Only({WithConfig(cfg, width, height, framerate, encoder) : cfg \in {LoadVideoConfig(env)}})

\* load_output_config
LoadOutputConfig(env) == Getenv(env, "OUTPUT_ENCODER", <<"l", "i", "b", "x", "2", "6", "5">>)

\* encoder_map of calculate_encoding_parameters
OutputEncoderMap ==
    << <<<<"l", "i", "b", "x", "2", "6", "4">>, <<"A", "V", "C">>>>, <<<<"l", "i", "b", "x", "2", "6", "5">>, <<"H", "E", "V", "C">>>>,
       <<<<"l", "i", "b", "a", "o", "m", "-", "a", "v", "1">>, <<"A", "V", "1">>>>, <<<<"l", "i", "b", "v", "p", "x", "-", "v", "p", "9">>, <<"V", "P", "9">>>> >>

TargetEncoder(output_encoder) == DictGet(OutputEncoderMap, output_encoder, <<"H", "E", "V", "C">>)

(***************************************************************************)
(* target_bitrate * 1.15 in IEEE-754 binary64.  A natural number is held   *)
(* in limbs of 12 bits for the product and as its bits for the rounding,   *)
(* least significant first.                                                *)
(***************************************************************************)
LimbBase == 2^12

LimbSeq == Seq(0..(LimbBase - 1))

BitSeq == Seq({0, 1})

\* a double m * 2^e, m given by its bits
Doubles == [m : BitSeq, e : Int]

Limbs[n \in Nat] == <<n % LimbBase, (n \div LimbBase) % LimbBase, n \div (LimbBase * LimbBase)>>

\* the schoolbook product of a number a of three limbs and a number m
LimbsCarry[a \in LimbSeq, m \in LimbSeq, k \in Nat, carry \in Nat] ==
    IF k > Len(a) + Len(m) THEN <<>>
    ELSE LET at(j) == IF j >= 1 /\ j <= Len(m) THEN m[j] ELSE 0
             column == a[1] * at(k) + a[2] * at(k - 1) + a[3] * at(k - 2) + carry
         IN  <<column % LimbBase>> \o LimbsCarry[a, m, k + 1, column \div LimbBase]

LimbsMul[a \in LimbSeq, m \in LimbSeq] == LimbsCarry[a, m, 1, 0]

\* the bits of a number in limbs, without leading zeros
BitsOfLimbs[p \in LimbSeq] ==
    LET bit(i) == (p[(i \div 12) + 1] \div 2^(i % 12)) % 2
        ones == {i \in 0..(12 * Len(p) - 1) : bit(i) = 1}
        length == IF ones = {} THEN 0 ELSE 1 + CHOOSE i \in ones : \A j \in ones : j <= i
    IN  [i \in 1..length |-> bit(i - 1)]

BitsValue[b \in BitSeq] == IF Len(b) = 0 THEN 0 ELSE b[1] + 2 * BitsValue[Tail(b)]

\* b + 1: a bit flips where every lower bit is 1
BitsIncrement[b \in BitSeq] ==
    LET ones(i) == \A j \in 1..(i - 1) : b[j] = 1
    IN  [i \in 1..(IF ones(Len(b) + 1) THEN Len(b) + 1 ELSE Len(b)) |->
           IF i > Len(b) THEN 1 ELSE IF ones(i) THEN 1 - b[i] ELSE b[i]]

MantissaBits == 53

\* The literal 1.15 is the double 0x1.2666666666666p+0: the integer
\* 0x012666666666666 scaled by 2^-52.
MaxrateFactorMantissa == <<1638, 1638, 1638, 1638, 18>>

MaxrateFactorExponent == -52

\* The double nearest to the natural number with bits p (ties to even), as
\* [m, e] standing for m * 2^e, m of at most 53 bits (54 when rounding carries).
RoundToDouble[p \in BitSeq] ==
    LET s == Len(p) - MantissaBits
    IN  IF s <= 0 THEN [m |-> p, e |-> 0]
        ELSE LET q == SubSeq(p, s + 1, Len(p))
                 sticky == \E i \in 1..(s - 1) : p[i] = 1
                 up == p[s] = 1 /\ (sticky \/ q[1] = 1)
             IN  [m |-> IF up THEN BitsIncrement[q] ELSE q, e |-> s]

\* int(m * 2^e) of a double held as bits m and exponent e
IntOfDouble[x \in Doubles] ==
    IF x.e >= 0 THEN BitsValue[[i \in 1..x.e |-> 0] \o x.m]
    ELSE IF -x.e >= Len(x.m) THEN 0
    ELSE BitsValue[SubSeq(x.m, 1 - x.e, Len(x.m))]

\* the double target_bitrate * 1.15 for target_bitrate >= 0: the int
\* converted to a double (exact below 2^53) and the correctly rounded product
ProductWithMaxrateFactor[target_bitrate \in Nat] ==
    [RoundToDouble[BitsOfLimbs[LimbsMul[Limbs[target_bitrate], MaxrateFactorMantissa]]]
       EXCEPT !.e = @ + MaxrateFactorExponent]

\* int(target_bitrate * 1.15), which truncates toward zero
IntOfProductWithMaxrateFactor(target_bitrate) ==
    (IF target_bitrate < 0 THEN -1 ELSE 1)
    * IntOfDouble[ProductWithMaxrateFactor[Abs(target_bitrate)]]

\* the maxrate, the bufsize and the dictionary returned
WithTarget(target, output_encoder) ==
    Only({[kind |-> target.kind, stage |-> target.stage,
           target_bitrate |-> target.ret,
           maxrate |-> maxrate,
           bufsize |-> maxrate * 2,
           encoder |-> output_encoder] :
          maxrate \in {IF target.kind = "return"
                       THEN IntOfProductWithMaxrateFactor(target.ret) ELSE 0}})

\* calculate_encoding_parameters on the environment load_dotenv left; an
\* exception of calculate_suggested_video_bitrate passes through.
CalculateEncodingParameters(env, source_width, source_height, source_framerate) ==
    Only({WithTarget(target, LoadOutputConfig(env)) :
          target \in {CalculateSuggestedVideoBitrate(env, source_width, source_height,
                                                     source_framerate,
                                                     TargetEncoder(LoadOutputConfig(env)))}})

(***************************************************************************)
(* utils.py and video_scanner.py: the path and exclusion lists             *)
(***************************************************************************)
\* [p.strip() for p in pieces if p.strip()]
KeptEntries[pieces \in Seq(Str)] ==
    IF Len(pieces) = 0 THEN <<>>
    ELSE (IF Len(Strip[Head(pieces)]) > 0 THEN <<Strip[Head(pieces)]>> ELSE <<>>)
         \o KeptEntries[Tail(pieces)]

\* the loop of read_lines_from_file: the stripped lines that are neither
\* empty nor comments
KeptLines[lines \in Seq(Str)] ==
    IF Len(lines) = 0 THEN <<>>
    ELSE (IF Len(Strip[Head(lines)]) > 0 /\ ~StartsWithHash[Strip[Head(lines)]]
          THEN <<Strip[Head(lines)]>> ELSE <<>>)
         \o KeptLines[Tail(lines)]

\* read_lines_from_file: fs maps the names of the files that exist to their
\* lines; a missing file gives the empty list (FileNotFoundError is caught).
ReadLinesFromFile(fs, file_path) ==
    IF file_path \in DOMAIN fs THEN KeptLines[fs[file_path]] ELSE <<>>

\* utils.get_array_from_env_and_file
GetArrayFromEnvAndFile(fs, env_str, file) ==
    (IF Len(env_str) > 0 THEN KeptEntries[Split[env_str]] ELSE <<>>)
    \o ReadLinesFromFile(fs, file)

\* video_scanner.get_scan_paths
GetScanPathsList(fs, scan_paths_str, paths_file) ==
    (IF Len(scan_paths_str) > 0 THEN KeptEntries[Split[scan_paths_str]] ELSE <<>>)
    \o ReadLinesFromFile(fs, paths_file)

\* video_scanner.get_exclusions: the entries of exclusions_str are bound to
\* the parameter exclusions_str itself, so the list exclusions is still
\* empty when the file's lines are appended to it.
GetExclusionsList(fs, exclusions_str, exclusions_file) ==
    LET exclusions == <<>>
        rebound_exclusions_str == IF Len(exclusions_str) > 0
                                  THEN KeptEntries[Split[exclusions_str]]
                                  ELSE exclusions_str
    IN  exclusions \o ReadLinesFromFile(fs, exclusions_file)

(***************************************************************************)
(* Bounds and the inputs drawn from them                                   *)
(***************************************************************************)
MaxWidthScale == 2

MaxCalls == 1

MaxStrLen == 3

MaxFileLines == 1

EmptyEnv == [k \in {} |-> <<>>]

\* one variable set in the process environment
VideoSettings ==
    { <<"PIXEL_SCALING", <<"1", "0", "0">>>>, <<"PIXEL_SCALING", <<"2", "0", "0", ".", "0">>>>, <<"PIXEL_SCALING", <<"a", "b", "c">>>>,
      <<"FRAMERATE_SCALING", <<"1", "0", "0">>>>,
      <<"REFERENCE_WIDTH", <<"0">>>>, <<"REFERENCE_WIDTH", <<"1", "9", "2", "0", ".", "0">>>>,
      <<"REFERENCE_FRAMERATE", <<" ", "4", "8", " ">>>>,
      <<"REFERENCE_BITRATE", <<"6", "0", "5", "0", "0", "0", "0">>>>,
      <<"REFERENCE_ENCODER", <<"h", "e", "v", "c">>>>, <<"REFERENCE_ENCODER", <<"f", "o", "o", "b", "a", "r">>>>,
      <<"OUTPUT_ENCODER", <<"l", "i", "b", "x", "2", "6", "4">>>> }

\* one variable set by the .env file
DotenvSettings ==
    { <<"PIXEL_SCALING", <<"1", "0", "0">>>>, <<"OUTPUT_ENCODER", <<"l", "i", "b", "x", "2", "6", "4">>>> }

Widths == {-192, 0, 192} \cup {1920 * k : k \in 1..MaxWidthScale}

Heights == {108, 1080}

Framerates == {0, 24, 48}

Encoders == {<<"a", "v", "c">>, <<"H", "E", "V", "C">>, <<"f", "o", "o", "b", "a", "r">>}

StringsOver(alphabet, n) == UNION {[1..k -> alphabet] : k \in 0..n}

ExclusionStrings == StringsOver({"a", ",", " "}, MaxStrLen)

ScanPathStrings == {<<>>, <<"/", "v", ",", " ", "/", "w">>}

FileLines == {<<>>, <<" ", "a", " ">>, <<"#", "a">>}

FileContents == UNION {[1..k -> FileLines] : k \in 0..MaxFileLines}

(***************************************************************************)
(* State                                                                   *)
(*   environ  os.environ, the variables that are set                       *)
(*   dotenv   the variables the .env file sets                             *)
(*   files    the text files that exist, name -> lines                     *)
(*   call     the last call of the bitrate logic and how it ended          *)
(*   calls    the number of calls of the bitrate logic made so far         *)
(*   scan     video_scanner.main: its position and its locals              *)
(***************************************************************************)
NoCall ==
    [op |-> "none", width |-> 0, height |-> 0, framerate |-> 0, encoder |-> <<>>,
     kind |-> "none", stage |-> "none", ret |-> 0, raw |-> RatInt(0),
     maxrate |-> 0, bufsize |-> 0]

ScanStart ==
    [pc |-> "start", scan_paths_str |-> <<>>, paths_file |-> <<>>,
     exclusions_str |-> <<>>, exclusions_file |-> <<>>,
     scan_paths |-> <<>>, exclusions |-> <<>>]

InitialEnvirons == {EmptyEnv} \cup {s[1] :> s[2] : s \in VideoSettings}

InitialDotenvs == {EmptyEnv} \cup {s[1] :> s[2] : s \in DotenvSettings}

Init ==
    /\ environ \in InitialEnvirons
    /\ dotenv \in InitialDotenvs
    /\ files = EmptyEnv
    /\ call = NoCall
    /\ calls = 0
    /\ scan = ScanStart

\* calculate_suggested_video_bitrate(width, height, framerate, encoder)
SuggestBitrate(width, height, framerate, encoder) ==
    /\ calls < MaxCalls
    /\ \E env \in {LoadDotenv(environ, dotenv)} :
       \E out \in {CalculateSuggestedVideoBitrate(env, width, height, framerate, encoder)} :
          /\ out.kind # "irrational"
          /\ environ' = env
          /\ call' = [op |-> "calculate_suggested_video_bitrate",
                      width |-> width, height |-> height, framerate |-> framerate,
                      encoder |-> encoder,
                      kind |-> out.kind, stage |-> out.stage, ret |-> out.ret,
                      raw |-> out.raw,
                      maxrate |-> 0, bufsize |-> 0]
    /\ calls' = calls + 1
    /\ UNCHANGED <<dotenv, files, scan>>

\* calculate_encoding_parameters(source_width, source_height, source_framerate):
\* load_output_config and load_video_config each call load_dotenv.
EncodingParameters(source_width, source_height, source_framerate) ==
    /\ calls < MaxCalls
    /\ \E env \in {LoadDotenv(LoadDotenv(environ, dotenv), dotenv)} :
       \E out \in {CalculateEncodingParameters(env, source_width, source_height,
                                               source_framerate)} :
          /\ out.kind # "irrational"
          /\ environ' = env
          /\ call' = [op |-> "calculate_encoding_parameters",
                      width |-> source_width, height |-> source_height,
                      framerate |-> source_framerate, encoder |-> out.encoder,
                      kind |-> out.kind, stage |-> out.stage, ret |-> out.target_bitrate,
                      raw |-> RatInt(0),
                      maxrate |-> out.maxrate, bufsize |-> out.bufsize]
    /\ calls' = calls + 1
    /\ UNCHANGED <<dotenv, files, scan>>

Next ==
    \/ \E w \in Widths, h \in Heights, f \in Framerates, e \in Encoders :
          SuggestBitrate(w, h, f, e)
    \/ \E w \in Widths, h \in Heights, f \in Framerates : EncodingParameters(w, h, f)

Spec == Init /\ [][Next]_vars

(***************************************************************************)
(* video_scanner.main up to the exclusion list                             *)
(***************************************************************************)
ScanInit ==
    /\ environ \in {("EXCLUSIONS" :> x) @@ ("SCAN_PATHS" :> p) :
                      x \in ExclusionStrings, p \in ScanPathStrings}
                   \cup {"SCAN_PATHS" :> p : p \in ScanPathStrings}
    /\ dotenv = EmptyEnv
    /\ files \in {(<<"e", "x", "c", "l", "u", "s", "i", "o", "n", "s", ".", "t", "x", "t">> :> c) @@ (<<"p", "a", "t", "h", "s", ".", "t", "x", "t">> :> <<<<"/", "x">>>>) : c \in FileContents}
                 \cup {EmptyEnv}
    /\ call = NoCall
    /\ calls = 0
    /\ scan = ScanStart

\* load_config
LoadConfig ==
    /\ scan.pc = "start"
    /\ environ' = LoadDotenv(environ, dotenv)
    /\ scan' = [scan EXCEPT !.pc = "loaded",
                  !.scan_paths_str = Getenv(environ', "SCAN_PATHS", <<>>),
                  !.paths_file = Getenv(environ', "PATHS_FILE", <<"p", "a", "t", "h", "s", ".", "t", "x", "t">>),
                  !.exclusions_str = Getenv(environ', "EXCLUSIONS", <<>>),
                  !.exclusions_file = Getenv(environ', "EXCLUSIONS_FILE", <<"e", "x", "c", "l", "u", "s", "i", "o", "n", "s", ".", "t", "x", "t">>)]
    /\ UNCHANGED <<dotenv, files, call, calls>>

\* scan_paths = get_scan_paths(scan_paths_str, paths_file)
GetScanPaths ==
    /\ scan.pc = "loaded"
    /\ scan' = [scan EXCEPT !.pc = "paths",
                  !.scan_paths = GetScanPathsList(files, scan.scan_paths_str, scan.paths_file)]
    /\ UNCHANGED <<environ, dotenv, files, call, calls>>

\* if not scan_paths: return
NoPathsToScan ==
    /\ scan.pc = "paths"
    /\ scan.scan_paths = <<>>
    /\ scan' = [scan EXCEPT !.pc = "returned"]
    /\ UNCHANGED <<environ, dotenv, files, call, calls>>

\* exclusions = get_exclusions(exclusions_str, exclusions_file)
GetExclusions ==
    /\ scan.pc = "paths"
    /\ scan.scan_paths # <<>>
    /\ scan' = [scan EXCEPT !.pc = "exclusions",
                  !.exclusions = GetExclusionsList(files, scan.exclusions_str,
                                                   scan.exclusions_file)]
    /\ UNCHANGED <<environ, dotenv, files, call, calls>>

ScanNext == LoadConfig \/ GetScanPaths \/ NoPathsToScan \/ GetExclusions

ScanSpec == ScanInit /\ [][ScanNext]_vars

(***************************************************************************)
(* The claims.  call holds the last call; after it environ is the          *)
(* environment load_dotenv left, which is the one the call read.           *)
(***************************************************************************)
IsSuggest == call.op = "calculate_suggested_video_bitrate"

IsParams == call.op = "calculate_encoding_parameters"

\* the Reference Profile and exponents the last call loaded
Config == LoadVideoConfig(environ)

PositiveInputs == call.width > 0 /\ call.height > 0 /\ call.framerate > 0

\* the invariant of the Reference Profile: every reference value > 0
ProfileInvariant ==
    \E cfg \in {Config} :
        /\ cfg.ok
        /\ cfg.reference_width > 0 /\ cfg.reference_height > 0
        /\ cfg.reference_framerate > 0 /\ cfg.reference_bitrate > 0

Known(encoder) == ObtainEncoderEfficiency(encoder).n # 0

KnownReferenceEncoder == Known(Config.reference_encoder)

ConfigKeys ==
    {"PIXEL_SCALING", "FRAMERATE_SCALING", "REFERENCE_WIDTH", "REFERENCE_HEIGHT",
     "REFERENCE_FRAMERATE", "REFERENCE_BITRATE", "REFERENCE_ENCODER"}

\* C1 as stated: a call with strictly positive inputs and a profile that
\* satisfies its invariant, in which the source codec or the reference
\* encoder is unknown to the table, returns 0 and raises nothing.
C1_UnknownCodecReturnsZero ==
    (/\ IsSuggest
     /\ PositiveInputs
     /\ ProfileInvariant
     /\ (~Known(call.encoder) \/ ~KnownReferenceEncoder))
    => (call.kind = "return" /\ call.ret = 0)

\* C2 as stated: a call in which width, height, framerate or a reference
\* value is zero or negative ends in an InvalidInput error.
C2_NonPositiveIsInvalidInput ==
    (/\ IsSuggest
     /\ \/ ~PositiveInputs
        \/ \E cfg \in {Config} :
              cfg.ok /\ (cfg.reference_width <= 0 \/ cfg.reference_height <= 0
                         \/ cfg.reference_framerate <= 0))
    => call.kind = "InvalidInput"

\* C3: with strictly positive inputs and a Reference Profile whose
\* reference encoder is known, the call returns an exact multiple of
\* 100000, the floor of raw_bitrate / 100000 times 100000.
C3_QuantizedDown ==
    (IsSuggest /\ PositiveInputs /\ ProfileInvariant /\ KnownReferenceEncoder)
    => /\ call.kind = "return"
       /\ call.ret % 100000 = 0
       /\ call.ret = (call.raw.n \div (call.raw.d * 100000)) * 100000

\* C3 witness: such a call returned a positive bitrate whose raw value was
\* not a multiple of 100000, so that the rounding took something away.
C3_RoundedCallSeen ==
    /\ IsSuggest /\ PositiveInputs /\ ProfileInvariant /\ KnownReferenceEncoder
    /\ call.kind = "return"
    /\ call.ret > 0
    /\ call.raw.n % (call.raw.d * 100000) # 0

\* C4 as stated: every result of calculate_encoding_parameters has
\* bufsize = 2 * maxrate and maxrate = floor(target_bitrate * 1.15), the
\* product being an integer.
C4_MaxrateIsExactProduct ==
    (IsParams /\ call.kind = "return")
    => /\ call.bufsize = 2 * call.maxrate
       /\ call.maxrate = (call.ret \div 100) * 115

\* the result of the same call for the codec "hevc"
HevcResult ==
    CalculateSuggestedVideoBitrate(environ, call.width, call.height, call.framerate, <<"h", "e", "v", "c">>)

AvcCall ==
    /\ IsSuggest /\ PositiveInputs /\ ProfileInvariant /\ KnownReferenceEncoder
    /\ Lower[call.encoder] = <<"a", "v", "c">>
    /\ call.kind = "return"

\* C5 as stated: for the same strictly positive width, height and framerate
\* under a profile with a known reference encoder, "hevc" gets strictly
\* less than "avc".
C5_HevcStrictlyBelowAvc ==
    AvcCall => \E hevc \in {HevcResult} : hevc.kind = "return" /\ hevc.ret < call.ret

\* C5 amended: "hevc" never gets more than "avc", and gets strictly less
\* whenever "avc" gets at least 400000.
C5_HevcNotAboveAvc ==
    AvcCall => \E hevc \in {HevcResult} :
                  /\ hevc.kind = "return"
                  /\ hevc.ret <= call.ret
                  /\ (call.ret >= 400000 => hevc.ret < call.ret)

\* C5 witness: an "avc" call with strictly positive inputs got at least
\* 400000.
C5_AvcCallSeen == AvcCall /\ call.ret >= 400000

\* C6 as stated: when one of the seven configuration values is missing or
\* malformed, a call (here one with strictly positive inputs) fails with a
\* ConfigError raised while loading.
C6_BadConfigIsConfigError ==
    (/\ IsSuggest
     /\ PositiveInputs
     /\ \/ ~(ConfigKeys \subseteq DOMAIN environ)
        \/ ~Config.ok
        \/ ~KnownReferenceEncoder)
    => (call.kind = "ConfigError" /\ call.stage = "load")

\* C7 as stated: under a profile that satisfies its invariant, the call at
\* the reference point (reference width, height, framerate and encoder)
\* returns reference_bitrate rounded down to the nearest 100000.
C7_IdentityAtReference ==
    \A cfg \in {Config} :
        (/\ IsSuggest
         /\ ProfileInvariant
         /\ call.width = cfg.reference_width
         /\ call.height = cfg.reference_height
         /\ call.framerate = cfg.reference_framerate
         /\ Lower[call.encoder] = Lower[cfg.reference_encoder])
        => /\ call.kind = "return"
           /\ call.ret = (cfg.reference_bitrate \div 100000) * 100000

\* C8 as stated: a call leaves the process environment as it was.
C8_CallsChangeNothing == [][environ' = environ]_vars

\* C9: for a fixed strictly positive framerate, codec and Reference Profile
\* with a pixel scaling exponent > 0, a strictly positive resolution with
\* at least as many pixels never gets a smaller bitrate.
C9_MonotoneInPixelCount ==
    (/\ IsSuggest /\ PositiveInputs /\ ProfileInvariant
     /\ Config.pixel_scaling.n > 0
     /\ call.kind = "return")
    => \A width \in Widths, height \in Heights :
          (width > 0 /\ height > 0 /\ call.width * call.height <= width * height)
          => \A other \in {CalculateSuggestedVideoBitrate(environ, width, height,
                                                          call.framerate, call.encoder)} :
                other.kind = "return" => call.ret <= other.ret

\* C9 witness: a call of a resolution with fewer pixels than the largest
\* one returned a positive bitrate, and the largest one gets more.
C9_GrowthSeen ==
    /\ IsSuggest /\ PositiveInputs /\ ProfileInvariant
    /\ Config.pixel_scaling.n > 0
    /\ call.kind = "return"
    /\ call.ret > 0
    /\ \E width \in Widths, height \in Heights :
          /\ width > 0 /\ height > 0 /\ call.width * call.height < width * height
          /\ \E other \in {CalculateSuggestedVideoBitrate(environ, width, height,
                                                          call.framerate, call.encoder)} :
                other.kind = "return" /\ call.ret < other.ret

\* C10 as stated: get_exclusions returns the entries of exclusions_str
\* followed by the lines of the exclusions file, the shape
\* get_array_from_env_and_file gives.
C10_ExclusionsFromStringAndFile ==
    scan.pc = "exclusions"
    => scan.exclusions = GetArrayFromEnvAndFile(files, scan.exclusions_str,
                                                scan.exclusions_file)

====
